---- MODULE Spec2Model ----
(***************************************************************************)
(* TreasuryManager: the processor of src/lib.rs (new, process, get_stats)  *)
(* and the pipeline of run (read the input, process every line, hand the   *)
(* collected records to output_results).                                   *)
(*                                                                         *)
(* A behaviour is either one run of the binary (mode = "run") or a client  *)
(* of the library calling process and get_stats on one processor in any    *)
(* order (mode = "lib").                                                   *)
(***************************************************************************)
EXTENDS Integers, Sequences, FiniteSets, TLC

VARIABLES
    mode,        \* "run": one run of the binary; "lib": a client of the library
    phase,       \* where run is
    verbose,     \* the arguments of run, or of new
    input,
    output,
    processor,   \* the TreasuryManagerProcessor, once built
    readRet,     \* the value of the match on input, once evaluated
    input_data,
    lines,       \* what the iterator input_data.lines() has left
    results,
    writeRet,    \* what fs::write returned, once called
    outFile0,    \* the output path before the run
    outFile,     \* the output path now
    sinkArgs,    \* the arguments of the calls of output_results
    exit,        \* how the process ended
    log,         \* the calls of the log macros
    calls,       \* the number of calls of process
    last,        \* the last call of process: its argument and what it returned
    stats        \* what the last call of get_stats returned

vars == <<mode, phase, verbose, input, output, processor, readRet, input_data,
          lines, results, writeRet, outFile0, outFile, sinkArgs, exit, log,
          calls, last, stats>>

(***************************************************************************)
(* Bounds.                                                                 *)
(***************************************************************************)
\* longest input text, in characters
MaxTextLen == 4
\* most process calls a library client makes
MaxCalls == 3
\* longest line a library client passes to process, in characters
MaxArgLen == 1

(***************************************************************************)
(* Text.  A text is a sequence of characters; "U+00E9" stands for a        *)
(* character that UTF-8 encodes in two bytes.                              *)
(***************************************************************************)
LF == "\n"
CR == "\r"
Chars == {"a", " ", "U+00E9", LF, CR}

Texts == UNION {[1..n -> Chars] : n \in 0..MaxTextLen}

\* the lines a library client passes to process
ClientLines == UNION {[1..n -> Chars \ {LF, CR}] : n \in 0..MaxArgLen}

Utf8Width(c) == IF c = "U+00E9" THEN 2 ELSE 1

\* str::len: the length in bytes
RECURSIVE StrLen(_)
StrLen(s) == IF s = <<>> THEN 0 ELSE Utf8Width(Head(s)) + StrLen(Tail(s))

\* index of the first line feed of s, 0 when there is none
RECURSIVE FindLF(_, _)
FindLF(s, i) ==
    IF i > Len(s) THEN 0
    ELSE IF s[i] = LF THEN i
    ELSE FindLF(s, i + 1)

\* str::split_inclusive('\n'): the pieces keep their line feed; no empty last piece
RECURSIVE SplitInclusive(_)
SplitInclusive(s) ==
    IF s = <<>> THEN <<>>
    ELSE LET i == FindLF(s, 1)
         IN IF i = 0 THEN <<s>>
            ELSE <<SubSeq(s, 1, i)>> \o SplitInclusive(SubSeq(s, i + 1, Len(s)))

\* what str::lines strips from a piece: its line feed and then a carriage return
StripLineEnding(piece) ==
    IF piece # <<>> /\ piece[Len(piece)] = LF
    THEN LET l == SubSeq(piece, 1, Len(piece) - 1)
         IN IF l # <<>> /\ l[Len(l)] = CR THEN SubSeq(l, 1, Len(l) - 1) ELSE l
    ELSE piece

\* a mutant of Lines: split on the separator, so that the text before the
\* first line feed and the text after the last one, even empty, are lines
RECURSIVE SplitOnLF(_)
SplitOnLF(s) ==
    LET i == FindLF(s, 1)
    IN IF i = 0 THEN <<s>>
       ELSE <<SubSeq(s, 1, i - 1)>> \o SplitOnLF(SubSeq(s, i + 1, Len(s)))

\* input_data.lines()
Lines(s) ==
    LET pieces == SplitInclusive(s)
    IN [i \in 1..Len(pieces) |-> StripLineEnding(pieces[i])]

(***************************************************************************)
(* Values.                                                                 *)
(***************************************************************************)
None == [some |-> FALSE]
Some(x) == [some |-> TRUE, value |-> x]

Ok(x) == [ok |-> TRUE, value |-> x]
Err(e) == [ok |-> FALSE, error |-> e]

Digit(d) ==
    CASE d = 0 -> "0" [] d = 1 -> "1" [] d = 2 -> "2" [] d = 3 -> "3"
      [] d = 4 -> "4" [] d = 5 -> "5" [] d = 6 -> "6" [] d = 7 -> "7"
      [] d = 8 -> "8" [] d = 9 -> "9"

\* the {} of format! applied to a usize: its decimal digits
RECURSIVE Display(_)
Display(n) == IF n < 10 THEN Digit(n) ELSE Display(n \div 10) \o Digit(n % 10)

\* chrono::Utc::now().to_rfc3339(): a well-formed timestamp; its value is the
\* wall clock's and is kept abstract
Now == "rfc3339"

(***************************************************************************)
(* TreasuryManagerProcessor.                                               *)
(***************************************************************************)
New(v) == [verbose |-> v, processed_count |-> 0]

\* a mutant of Process: the record is built before the counter is incremented
ProcessNumberedBeforeIncrement(p, data) ==
    LET n == p.processed_count
    IN [processor |-> [p EXCEPT !.processed_count = n + 1],
        logged |-> IF p.verbose
                   THEN <<<<"debug", "Processing data of length: ", StrLen(data)>>>>
                   ELSE <<>>,
        ret |-> Ok([success |-> TRUE,
                    message |-> "Successfully processed item #" \o Display(n),
                    data |-> Some([length |-> StrLen(data),
                                   processed_at |-> Now,
                                   item_number |-> n])])]

\* a mutant of Process: an empty line is not counted
ProcessSkippingEmpty(p, data) ==
    LET n == IF data = <<>> THEN p.processed_count ELSE p.processed_count + 1
    IN [processor |-> [p EXCEPT !.processed_count = n],
        logged |-> IF p.verbose
                   THEN <<<<"debug", "Processing data of length: ", StrLen(data)>>>>
                   ELSE <<>>,
        ret |-> Ok([success |-> TRUE,
                    message |-> "Successfully processed item #" \o Display(n),
                    data |-> Some([length |-> StrLen(data),
                                   processed_at |-> Now,
                                   item_number |-> n])])]

\* process(&mut self, data): the processor afterwards, the debug! call it makes
\* and the value it returns
Process(p, data) ==
    LET n == p.processed_count + 1
    IN [processor |-> [p EXCEPT !.processed_count = n],
        logged |-> IF p.verbose
                   THEN <<<<"debug", "Processing data of length: ", StrLen(data)>>>>
                   ELSE <<>>,
        ret |-> Ok([success |-> TRUE,
                    message |-> "Successfully processed item #" \o Display(n),
                    data |-> Some([length |-> StrLen(data),
                                   processed_at |-> Now,
                                   item_number |-> n])])]

\* a mutant of GetStats: the count is reported one too high
GetStatsOffByOne(p) ==
    [processed_count |-> p.processed_count + 1, verbose |-> p.verbose]

\* get_stats(&self)
GetStats(p) == [processed_count |-> p.processed_count, verbose |-> p.verbose]

(***************************************************************************)
(* The collaborators of run: the process exit, the file system, serde_json *)
(***************************************************************************)
\* main returns Ok(()): the process exits with 0
ExitSuccess == 0
\* main returns Err: the runtime prints the error and exits with 1
ExitFailure == 1
\* a panic (the expect of output_results) ends the process with 101
ExitPanic == 101

Exited(code, why) == Some([code |-> code, error |-> why])

\* fs::read_to_string(path): the text of the file, or an io::Error (the file is
\* missing, unreadable or not valid UTF-8)
ReadToString == {Ok(t) : t \in Texts} \cup {Err("read_to_string")}

\* the output path before the run: no file, or a file left there earlier
Absent == [exists |-> FALSE, kind |-> "none", content |-> <<>>]
Stale == [exists |-> TRUE, kind |-> "stale", content |-> <<>>]

\* a ProcessResult as serde writes it: the fields in declaration order, the
\* json! object's keys in the order of serde_json's map (sorted)
ToJson(r) ==
    <<  <<"success", r.success>>,
        <<"message", r.message>>,
        <<"data", << <<"item_number", r.data.value.item_number>>,
                     <<"length", r.data.value.length>>,
                     <<"processed_at", r.data.value.processed_at>> >> >> >>

\* serde_json::to_string_pretty(&results): an array of objects; it cannot fail
\* on a ProcessResult (string keys, no fallible Serialize implementation)
ToStringPretty(rs) == Ok([i \in 1..Len(rs) |-> ToJson(rs[i])])

\* fs::write(path, json) on a path in state f: it creates or truncates the file
\* and writes all of json.  It fails leaving the path as it was (the file cannot
\* be created or opened: no such directory, permission denied) or leaving a
\* created, incomplete file (the write itself fails: disk full)
FsWrite(f, json) ==
    { [ret |-> Ok("unit"),
       file |-> [exists |-> TRUE, kind |-> "json", content |-> json]],
      [ret |-> Err("create"),
       file |-> f],
      [ret |-> Err("write_all"),
       file |-> [exists |-> TRUE, kind |-> "incomplete", content |-> <<>>]] }

(***************************************************************************)
(* The initial states.                                                     *)
(***************************************************************************)
Paths == {None, Some("path")}

\* main has parsed the arguments and is about to call run
InitRun ==
    /\ mode = "run"
    /\ phase = "Start"
    /\ verbose \in BOOLEAN
    /\ input \in Paths
    /\ output \in Paths
    /\ processor = None
    /\ outFile0 \in {Absent, Stale}

\* a client of the library has built a processor with new(verbose)
InitLib ==
    /\ mode = "lib"
    /\ phase = "Lib"
    /\ verbose \in BOOLEAN
    /\ input = None
    /\ output = None
    /\ processor = Some(New(verbose))
    /\ outFile0 = Absent

Init ==
    /\ InitRun \/ InitLib
    /\ outFile = outFile0
    /\ readRet = None
    /\ input_data = <<>>
    /\ lines = <<>>
    /\ results = <<>>
    /\ writeRet = None
    /\ sinkArgs = <<>>
    /\ exit = None
    /\ log = <<>>
    /\ calls = 0
    /\ last = None
    /\ stats = None

(***************************************************************************)
(* run, step by step.                                                      *)
(***************************************************************************)
\* lib.rs 88-99: the logger is initialised, the run announced, the processor built
RunStart ==
    /\ mode = "run" /\ phase = "Start"
    /\ log' = Append(log, <<"info", "Starting TreasuryManager processing">>)
    /\ processor' = Some(New(verbose))
    /\ phase' = "ReadInput"
    /\ UNCHANGED <<mode, verbose, input, output, readRet, input_data, lines,
                   results, writeRet, outFile0, outFile, sinkArgs, exit, calls,
                   last, stats>>

\* a mutant of RunReadInputFile: a read error is taken for an empty input
\* (unwrap_or_default in place of ?)
RunReadInputFileOrDefault ==
    /\ mode = "run" /\ phase = "ReadInput"
    /\ input.some
    /\ log' = Append(log, <<"info", "Reading input from file: ", input.value>>)
    /\ \E read \in ReadToString :
          /\ readRet' = Some(read)
          /\ input_data' = IF read.ok THEN read.value ELSE <<>>
          /\ lines' = Lines(input_data')
    /\ phase' = "ProcessLines"
    /\ UNCHANGED <<mode, verbose, input, output, processor, results, writeRet,
                   outFile0, outFile, sinkArgs, exit, calls, last, stats>>

\* lib.rs 102-106, 111, 114, 135; input is Some(path): read_to_string, and ?
\* returns its error from run, which main returns; otherwise the text is
\* input_data and process_input_data starts to iterate over its lines
RunReadInputFile ==
    /\ mode = "run" /\ phase = "ReadInput"
    /\ input.some
    /\ log' = Append(log, <<"info", "Reading input from file: ", input.value>>)
    /\ \E read \in ReadToString :
          /\ readRet' = Some(read)
          /\ IF read.ok
             THEN /\ input_data' = read.value
                  /\ lines' = Lines(read.value)
                  /\ phase' = "ProcessLines"
                  /\ exit' = exit
             ELSE /\ phase' = "Failed"
                  /\ exit' = Exited(ExitFailure, read.error)
                  /\ UNCHANGED <<input_data, lines>>
    /\ UNCHANGED <<mode, verbose, input, output, processor, results, writeRet,
                   outFile0, outFile, sinkArgs, calls, last, stats>>

\* a mutant of RunReadInputNone: a run without an input path is refused
RunReadInputNoneRefused ==
    /\ mode = "run" /\ phase = "ReadInput"
    /\ ~input.some
    /\ log' = Append(log, <<"info", "No input file specified">>)
    /\ phase' = "Failed"
    /\ exit' = Exited(ExitFailure, "no input")
    /\ UNCHANGED <<mode, verbose, input, output, processor, readRet, input_data,
                   lines, results, writeRet, outFile0, outFile, sinkArgs, calls,
                   last, stats>>

\* lib.rs 107-111, 114, 135; input is None: the input text is the empty string
RunReadInputNone ==
    /\ mode = "run" /\ phase = "ReadInput"
    /\ ~input.some
    /\ log' = Append(log, <<"info", "No input file specified">>)
    /\ readRet' = Some(Ok(<<>>))
    /\ input_data' = <<>>
    /\ lines' = Lines(<<>>)
    /\ phase' = "ProcessLines"
    /\ UNCHANGED <<mode, verbose, input, output, processor, results, writeRet,
                   outFile0, outFile, sinkArgs, exit, calls, last, stats>>

\* a mutant of ProcessLine: the record is put at the front of results
ProcessLinePrepending ==
    /\ mode = "run" /\ phase = "ProcessLines"
    /\ lines # <<>>
    /\ LET r == Process(processor.value, Head(lines))
       IN /\ processor' = Some(r.processor)
          /\ log' = log \o r.logged
          /\ calls' = calls + 1
          /\ last' = Some([data |-> Head(lines), ret |-> r.ret])
          /\ results' = <<r.ret.value>> \o results
          /\ lines' = Tail(lines)
    /\ UNCHANGED <<mode, phase, verbose, input, output, readRet, input_data,
                   writeRet, outFile0, outFile, sinkArgs, exit, stats>>

\* lib.rs 135-138: one turn of the loop of process_input_data.  The ? of line
\* 136 takes the value out of the Ok that process returns.  The source has no
\* path for an Err: process_input_data returns Vec<ProcessResult> and run takes
\* that value at line 114 without ?, so the step is defined for Ok alone (and
\* rustc refuses the ? as written, E0277).
ProcessLine ==
    /\ mode = "run" /\ phase = "ProcessLines"
    /\ lines # <<>>
    /\ LET r == Process(processor.value, Head(lines))
       IN /\ r.ret.ok
          /\ processor' = Some(r.processor)
          /\ log' = log \o r.logged
          /\ calls' = calls + 1
          /\ last' = Some([data |-> Head(lines), ret |-> r.ret])
          /\ results' = Append(results, r.ret.value)
          /\ lines' = Tail(lines)
    /\ UNCHANGED <<mode, phase, verbose, input, output, readRet, input_data,
                   writeRet, outFile0, outFile, sinkArgs, exit, stats>>

\* a mutant of EndOfLines: the loop may stop before the iterator is exhausted
EndOfLinesEarly ==
    /\ mode = "run" /\ phase = "ProcessLines"
    /\ phase' = "WriteOutput"
    /\ UNCHANGED <<mode, verbose, input, output, processor, readRet, input_data,
                   lines, results, writeRet, outFile0, outFile, sinkArgs, exit,
                   log, calls, last, stats>>

\* lib.rs 135, 140, 114: the iterator is exhausted, process_input_data returns
\* results
EndOfLines ==
    /\ mode = "run" /\ phase = "ProcessLines"
    /\ lines = <<>>
    /\ phase' = "WriteOutput"
    /\ UNCHANGED <<mode, verbose, input, output, processor, readRet, input_data,
                   lines, results, writeRet, outFile0, outFile, sinkArgs, exit,
                   log, calls, last, stats>>

\* a mutant of OutputResultsFile: the result of the write is dropped
\* (let _ = fs::write(..) in place of expect)
OutputResultsFileIgnoringError ==
    /\ mode = "run" /\ phase = "WriteOutput"
    /\ output.some
    /\ log' = Append(log, <<"info", "Outputting results to file: ", output.value>>)
    /\ sinkArgs' = Append(sinkArgs, results)
    /\ \E w \in FsWrite(outFile, ToStringPretty(results).value) :
          /\ writeRet' = Some(w.ret)
          /\ outFile' = w.file
    /\ phase' = "Done"
    /\ exit' = Exited(ExitSuccess, "none")
    /\ UNCHANGED <<mode, verbose, input, output, processor, readRet, input_data,
                   lines, results, outFile0, calls, last, stats>>

\* lib.rs 117, 149-153, 119; output is Some(path): the results are serialised
\* and written; expect panics when the write failed, otherwise run returns Ok.
\* The ? of line 152 takes the value out of the Ok of to_string_pretty.  The
\* source has no path for an Err: output_results returns (), and run calls it
\* as a statement at line 117, so the step is defined for Ok alone (and rustc
\* refuses the ? as written, E0277).
OutputResultsFile ==
    /\ mode = "run" /\ phase = "WriteOutput"
    /\ output.some
    /\ log' = Append(log, <<"info", "Outputting results to file: ", output.value>>)
    /\ sinkArgs' = Append(sinkArgs, results)
    /\ LET json == ToStringPretty(results)
       IN /\ json.ok
          /\ \E w \in FsWrite(outFile, json.value) :
                /\ writeRet' = Some(w.ret)
                /\ outFile' = w.file
                /\ IF w.ret.ok
                   THEN /\ phase' = "Done"
                        /\ exit' = Exited(ExitSuccess, "none")
                   ELSE /\ phase' = "Failed"
                        /\ exit' = Exited(ExitPanic, w.ret.error)
    /\ UNCHANGED <<mode, verbose, input, output, processor, readRet, input_data,
                   lines, results, outFile0, calls, last, stats>>

\* lib.rs 117, 149-150, 154-156, 119; output is None: nothing is written
OutputResultsNone ==
    /\ mode = "run" /\ phase = "WriteOutput"
    /\ ~output.some
    /\ log' = Append(log, <<"info", "No output file specified">>)
    /\ sinkArgs' = Append(sinkArgs, results)
    /\ phase' = "Done"
    /\ exit' = Exited(ExitSuccess, "none")
    /\ UNCHANGED <<mode, verbose, input, output, processor, readRet, input_data,
                   lines, results, writeRet, outFile0, outFile, calls, last,
                   stats>>

(***************************************************************************)
(* A client of the library: process and get_stats in any order.            *)
(***************************************************************************)
CallProcess ==
    /\ mode = "lib"
    /\ calls < MaxCalls
    /\ \E data \in ClientLines :
          LET r == Process(processor.value, data)
          IN /\ processor' = Some(r.processor)
             /\ log' = log \o r.logged
             /\ last' = Some([data |-> data, ret |-> r.ret])
    /\ calls' = calls + 1
    /\ UNCHANGED <<mode, phase, verbose, input, output, readRet, input_data,
                   lines, results, writeRet, outFile0, outFile, sinkArgs, exit,
                   stats>>

CallGetStats ==
    /\ mode = "lib"
    /\ stats' = Some(GetStats(processor.value))
    /\ UNCHANGED <<mode, phase, verbose, input, output, processor, readRet,
                   input_data, lines, results, writeRet, outFile0, outFile,
                   sinkArgs, exit, log, calls, last>>

Next ==
    \/ RunStart
    \/ RunReadInputFile
    \/ RunReadInputNone
    \/ ProcessLine
    \/ EndOfLines
    \/ OutputResultsFile
    \/ OutputResultsNone
    \/ CallProcess
    \/ CallGetStats

Spec == Init /\ [][Next]_vars

(***************************************************************************)
(* The claims.                                                             *)
(***************************************************************************)
\* run has left the loop of process_input_data
AfterLoop ==
    /\ mode = "run"
    /\ phase \in {"WriteOutput", "Done", "Failed"}
    /\ readRet.some /\ readRet.value.ok

ReadFailed == readRet.some /\ ~readRet.value.ok
WriteFailed == writeRet.some /\ ~writeRet.value.ok

\* the number of lines of a text by the newline-delimited convention: one per
\* line feed, and one more for what follows the last line feed, if anything
ExpectedLineCount(s) ==
    Cardinality({i \in 1..Len(s) : s[i] = LF})
        + (IF s # <<>> /\ s[Len(s)] # LF THEN 1 ELSE 0)

\* the message of item n, written out
ExpectedMessage(n) ==
    CASE n = 1 -> "Successfully processed item #1"
      [] n = 2 -> "Successfully processed item #2"
      [] n = 3 -> "Successfully processed item #3"
      [] n = 4 -> "Successfully processed item #4"
      [] n = 5 -> "Successfully processed item #5"
      [] n = 6 -> "Successfully processed item #6"
      [] OTHER -> "Successfully processed item #" \o Display(n)

\* C1: once a run has gone through its L input lines, it has collected exactly
\* L records, and the i-th record comes from the i-th line (its length) and
\* carries item_number i.
C1_RecordsFollowLines ==
    AfterLoop =>
        LET all == Lines(input_data)
        IN /\ Len(results) = Len(all)
           /\ \A i \in 1..Len(results) :
                 /\ results[i].data.value.item_number = i
                 /\ results[i].data.value.length = StrLen(all[i])

\* a run over three lines of different lengths has ended
C1_Witness ==
    /\ AfterLoop /\ phase = "Done"
    /\ Len(results) = 3
    /\ results[1].data.value.length = 2
    /\ results[2].data.value.length = 0
    /\ results[3].data.value.length = 1

\* C2: processed_count is 0 after new and equals the number of process calls
\* made since, whatever the lines were; after a run over L lines it is L.
C2_CountIsCalls ==
    /\ processor.some => processor.value.processed_count = calls
    /\ AfterLoop => processor.value.processed_count = Len(Lines(input_data))

\* three calls have been made, the last one on an empty line
C2_Witness ==
    /\ mode = "lib"
    /\ calls = 3
    /\ last.some /\ last.value.data = <<>>
    /\ processor.value.processed_count = 3

\* C3: the call of process made when processed_count = k returned Ok with
\* success = true, the message of item k+1, item_number k+1 and the length of
\* its line in bytes, for either value of verbose.
C3_ProcessResult ==
    last.some =>
        LET r == last.value.ret
        IN /\ r.ok
           /\ r.value.success = TRUE
           /\ r.value.message = ExpectedMessage(calls)
           /\ r.value.data.some
           /\ r.value.data.value.item_number = calls
           /\ r.value.data.value.length = StrLen(last.value.data)
           /\ processor.value.processed_count = calls

\* a verbose processor has returned its third record, for a line of one
\* character and two bytes
C3_Witness ==
    /\ mode = "lib" /\ verbose
    /\ calls = 3
    /\ last.some
    /\ last.value.data = <<"U+00E9">>
    /\ last.value.ret.value.message = "Successfully processed item #3"
    /\ last.value.ret.value.data.value.length = 2

\* C4: a call of get_stats changes neither the processor nor the number of
\* calls, and returns the number of process calls made so far and the verbose
\* given to new; the processor's verbose never changes.
C4_StatsReadOnly ==
    /\ [][stats' # stats =>
            /\ processor' = processor
            /\ calls' = calls
            /\ stats'.some
            /\ stats'.value.processed_count = calls
            /\ stats'.value.verbose = verbose]_vars
    /\ [](processor.some => processor.value.verbose = verbose)

\* get_stats has returned 2 for a verbose processor, and a call of process
\* has been made since
C4_Witness ==
    /\ mode = "lib" /\ verbose
    /\ stats.some /\ stats.value.processed_count = 2 /\ stats.value.verbose
    /\ calls = 3

\* C5: when reading the given input path fails, run fails at once: process is
\* never called, no record is collected, output_results is never called and
\* the output path is left as it was.
C5_ReadFailureAborts ==
    ReadFailed =>
        /\ phase = "Failed"
        /\ exit.some /\ exit.value.code # ExitSuccess
        /\ calls = 0
        /\ processor.value.processed_count = 0
        /\ results = <<>>
        /\ sinkArgs = <<>>
        /\ ~writeRet.some
        /\ outFile = outFile0

\* the read failed in a run that was given an output path
C5_Witness ==
    /\ ReadFailed
    /\ input.some /\ output.some
    /\ exit.some

\* C6 as stated: when the write of the output fails, every line has been
\* processed, the run has failed and no output file exists.
C6_NoFileAfterFailedWrite ==
    (input.some /\ output.some /\ WriteFailed) =>
        /\ lines = <<>> /\ calls = Len(Lines(input_data))
        /\ exit.some /\ exit.value.code # ExitSuccess
        /\ ~outFile.exists

\* C6, amended: when the write of the output fails, every line has been
\* processed and the run has failed; the output path does not hold the
\* results; when the file could not be created the path is as it was before
\* the run, so no file exists if none did; a file that was there before the
\* run, or that was created before the write failed, still exists.
C6_FailedWrite ==
    (input.some /\ output.some /\ WriteFailed) =>
        /\ lines = <<>> /\ calls = Len(Lines(input_data))
        /\ phase = "Failed"
        /\ exit.some /\ exit.value.code # ExitSuccess
        /\ outFile.kind # "json"
        /\ writeRet.value.error = "create" => outFile = outFile0
        /\ (writeRet.value.error = "create" /\ ~outFile0.exists) => ~outFile.exists
        /\ outFile0.exists => outFile.exists
        /\ writeRet.value.error = "write_all" =>
              (outFile.exists /\ outFile.kind = "incomplete")

\* the output file could not be created after two lines were processed, and
\* none existed
C6_Witness ==
    /\ input.some /\ output.some /\ WriteFailed
    /\ writeRet.value.error = "create"
    /\ outFile0 = Absent
    /\ calls = 2

\* C7: a run ends with a non-zero exit status exactly when reading the input or
\* writing the output failed, and with zero otherwise.
C7_ExitStatus ==
    /\ exit.some <=> phase \in {"Done", "Failed"}
    /\ exit.some =>
          (exit.value.code # ExitSuccess <=> (ReadFailed \/ WriteFailed))

\* the run without input path and without output path has ended with zero
C7_Witness ==
    /\ mode = "run"
    /\ ~input.some /\ ~output.some
    /\ exit.some /\ exit.value.code = ExitSuccess

\* the steps between the phases of a run
PhaseSteps ==
    { <<"Start", "ReadInput">>, <<"ReadInput", "ProcessLines">>,
      <<"ReadInput", "Failed">>, <<"ProcessLines", "WriteOutput">>,
      <<"WriteOutput", "Done">>, <<"WriteOutput", "Failed">> }

\* what holds of the calls of output_results in every state: at most one,
\* made after the last line was processed, with all the records; the output
\* path is untouched before it, and a file it wrote holds all the records
C8_SinkState ==
    /\ Len(sinkArgs) <= 1
    /\ sinkArgs # <<>> =>
          /\ phase \in {"Done", "Failed"}
          /\ lines = <<>>
          /\ sinkArgs[1] = results
          /\ Len(results) = ExpectedLineCount(input_data)
    /\ sinkArgs = <<>> => (outFile = outFile0 /\ ~writeRet.some)
    /\ outFile.kind = "json" =>
          /\ phase = "Done"
          /\ Len(outFile.content) = ExpectedLineCount(input_data)
          /\ outFile.content = ToStringPretty(results).value

\* the phases of a run follow one another in order, a failed read or write
\* ending it, and output_results is called in WriteOutput alone
C8_PhaseOrder ==
    /\ [][phase' # phase => <<phase, phase'>> \in PhaseSteps]_vars
    /\ [][sinkArgs' # sinkArgs => phase = "WriteOutput"]_vars
    /\ [][outFile' # outFile => (phase = "WriteOutput" /\ sinkArgs' # sinkArgs)]_vars

\* C8 as stated: a run goes through Start, ReadInput, ProcessLines,
\* WriteOutput, Done in this order; output_results is called at most once,
\* after the last line was processed, with all the records; nothing is
\* written before that, and no partial output is ever written: the output
\* path is as it was before the run or holds the complete output.
C8_NoPartialOutput ==
    /\ C8_SinkState
    /\ outFile = outFile0 \/ outFile.kind = "json"

\* C8, amended: a run goes through Start, ReadInput, ProcessLines,
\* WriteOutput, Done in this order, a failed read or write ending it;
\* output_results is called at most once, after the last line was processed,
\* with all the records, and the output path is untouched before that call;
\* no part of the records is ever handed to it, and a file it wrote holds them
\* all.  An incomplete file is left at the output path exactly when the write
\* itself failed after the file was created, and the run has then failed.
C8_PhasesAndSink ==
    /\ C8_PhaseOrder
    /\ []C8_SinkState
    /\ [](outFile.kind = "incomplete" <=>
              (writeRet.some /\ ~writeRet.value.ok
                 /\ writeRet.value.error = "write_all"))
    /\ [](outFile.kind = "incomplete" =>
              /\ phase = "Failed"
              /\ exit.some /\ exit.value.code = ExitPanic
              /\ sinkArgs = <<results>>
              /\ Len(results) = ExpectedLineCount(input_data))
    /\ [](outFile = outFile0 \/ outFile.kind \in {"json", "incomplete"})

\* the write of the three records of a run's three lines failed after the file
\* was created, over an old file
C8_Witness ==
    /\ phase = "Failed"
    /\ outFile0 = Stale
    /\ outFile.kind = "incomplete"
    /\ Len(sinkArgs) = 1 /\ Len(sinkArgs[1]) = 3

\* a run has written the three records of its three lines over an old file
C8_WitnessWritten ==
    /\ phase = "Done"
    /\ outFile0 = Stale
    /\ outFile.kind = "json"
    /\ Len(outFile.content) = 3
    /\ Len(sinkArgs) = 1

\* C9: a last line without a line feed is processed as a line, and the empty
\* text (also the input of a run without input path) has no line: the run
\* collects as many records as the newline-delimited convention counts lines,
\* none for the empty text, and processed_count is that number.
C9_LineSplitting ==
    AfterLoop =>
        /\ Len(results) = ExpectedLineCount(input_data)
        /\ processor.value.processed_count = ExpectedLineCount(input_data)
        /\ input_data = <<>> => (results = <<>> /\ calls = 0)
        /\ (input_data # <<>> /\ input_data[Len(input_data)] # LF) =>
              results[Len(results)].data.value.length
                  = StrLen(Lines(input_data)[Len(Lines(input_data))])

\* a run over "a\n\na", three lines of which the last has no line feed
C9_Witness ==
    /\ AfterLoop /\ phase = "Done"
    /\ input_data = <<"a", LF, LF, "a">>
    /\ Len(results) = 3
    /\ results[3].data.value.length = 1

\* the run without input path has ended with no record
C9_WitnessEmpty ==
    /\ AfterLoop /\ phase = "Done"
    /\ ~input.some
    /\ results = <<>>

====
